---------------------------- MODULE Spec2Model ----------------------------
(***************************************************************************)
(* Model of nml_formatter.py: the Fortran namelist formatter.              *)
(*                                                                         *)
(* A text is a sequence of one-character strings, so that every string     *)
(* operation of the program (split, strip, replace, lower, the regular     *)
(* expression of parse_key_val_pair) is computed character by character.   *)
(***************************************************************************)
EXTENDS Integers, Sequences, FiniteSets, TLC

(***************************************************************************)
(* Bounds of the model.                                                    *)
(***************************************************************************)
\* longest document, in lines, that Init draws
MaxLines == 3
\* number of times the program is run on the same file
MaxRuns == 2

(***************************************************************************)
(* Python string primitives.                                               *)
(***************************************************************************)
NL == "\n"
None == "None"

\* the characters str.strip()/str.rstrip() and the regex class \s remove
Whitespace == {" ", "\t", NL}

Max(a, b) == IF a >= b THEN a ELSE b

\* ' ' * n : the empty string for n <= 0
Spaces(n) == [k \in 1..Max(n, 0) |-> " "]

\* str.lower(), on the letters the inputs use
Lower(c) ==
    CASE c = "A" -> "a"
      [] c = "E" -> "e"
      [] c = "F" -> "f"
      [] c = "K" -> "k"
      [] c = "L" -> "l"
      [] c = "M" -> "m"
      [] c = "N" -> "n"
      [] c = "R" -> "r"
      [] c = "S" -> "s"
      [] c = "T" -> "t"
      [] c = "U" -> "u"
      [] OTHER -> c

LowerStr(s) == [k \in DOMAIN s |-> Lower(s[k])]

\* s[a:b] of Python, with 1-based inclusive bounds
Slice(s, a, b) == IF a > b THEN <<>> ELSE SubSeq(s, a, b)

\* s[p:]
From(s, p) == Slice(s, p, Len(s))

\* s.startswith(pre)
StartsWith(s, pre) == Len(s) >= Len(pre) /\ SubSeq(s, 1, Len(pre)) = pre

\* c in s
Contains(s, c) == \E k \in DOMAIN s : s[k] = c

\* s.find(c) + 1 : the first position of c in s, 0 if absent
Find(s, c) == IF Contains(s, c)
              THEN CHOOSE k \in DOMAIN s : s[k] = c /\ \A j \in 1..(k - 1) : s[j] # c
              ELSE 0

\* s.lstrip(chars)
LStripSet(s, chars) ==
    IF \A k \in DOMAIN s : s[k] \in chars THEN <<>>
    ELSE From(s, CHOOSE k \in DOMAIN s :
                     s[k] \notin chars /\ \A j \in 1..(k - 1) : s[j] \in chars)

\* s.rstrip(chars)
RStripSet(s, chars) ==
    IF \A k \in DOMAIN s : s[k] \in chars THEN <<>>
    ELSE Slice(s, 1, CHOOSE k \in DOMAIN s :
                         s[k] \notin chars /\ \A j \in (k + 1)..Len(s) : s[j] \in chars)

RStrip(s) == RStripSet(s, Whitespace)
Strip(s) == LStripSet(RStrip(s), Whitespace)

\* s.split(c) : always at least one item
RECURSIVE Split(_, _)
Split(s, c) ==
    IF ~Contains(s, c) THEN <<s>>
    ELSE <<Slice(s, 1, Find(s, c) - 1)>> \o Split(From(s, Find(s, c) + 1), c)

\* sep.join(items)
RECURSIVE Join(_, _)
Join(items, sep) ==
    IF items = <<>> THEN <<>>
    ELSE IF Len(items) = 1 THEN items[1]
    ELSE items[1] \o sep \o Join(Tail(items), sep)

\* s.splitlines() : no item for the text after a final line break
RECURSIVE SplitLines(_)
SplitLines(s) ==
    IF s = <<>> THEN <<>>
    ELSE IF ~Contains(s, NL) THEN <<s>>
    ELSE <<Slice(s, 1, Find(s, NL) - 1)>> \o SplitLines(From(s, Find(s, NL) + 1))

\* s.replace(old, new) : leftmost occurrences, not overlapping, in one pass
RECURSIVE Replace(_, _, _)
Replace(s, old, new) ==
    IF s = <<>> THEN <<>>
    ELSE IF StartsWith(s, old) THEN new \o Replace(From(s, Len(old) + 1), old, new)
    ELSE <<s[1]>> \o Replace(Tail(s), old, new)

(***************************************************************************)
(* parse_key_val_pair: the regular expression of line 78 (optional         *)
(* whitespace, optional comma, optional whitespace, the key, optional      *)
(* whitespace, a run of '=', the rest), matched from the start of the text *)
(* before the first '!'.                                                   *)
(***************************************************************************)
\* \s* from position p: the first position at or after p that holds no whitespace
SkipWs(s, p) ==
    IF \A k \in p..Len(s) : s[k] \in Whitespace THEN Len(s) + 1
    ELSE CHOOSE k \in p..Len(s) :
             s[k] \notin Whitespace /\ \A j \in p..(k - 1) : s[j] \in Whitespace

\* [^\s=]+ from position q: the position after the longest run of key characters
KeyEnd(s, q) ==
    IF \A k \in q..Len(s) : s[k] \notin (Whitespace \cup {"="}) THEN Len(s) + 1
    ELSE CHOOSE k \in q..Len(s) :
             /\ s[k] \in (Whitespace \cup {"="})
             /\ \A j \in q..(k - 1) : s[j] \notin (Whitespace \cup {"="})

\* =+ from position r: the position after the run of '='
EqEnd(s, r) ==
    IF \A k \in r..Len(s) : s[k] = "=" THEN Len(s) + 1
    ELSE CHOOSE k \in r..Len(s) : s[k] # "=" /\ \A j \in r..(k - 1) : s[j] = "="

\* the key, optional whitespace, the run of '=' and the rest, with the key
\* starting at position q
MatchKeyAt(s, q) ==
    LET ke == KeyEnd(s, q)
        r  == SkipWs(s, ke)
    IN  IF ke > q /\ r <= Len(s) /\ s[r] = "="
        THEN [ok |-> TRUE, key |-> Slice(s, q, ke - 1), rest |-> From(s, EqEnd(s, r))]
        ELSE [ok |-> FALSE, key |-> <<>>, rest |-> <<>>]

\* re.match: ,? takes a comma when the rest then matches, and otherwise gives
\* it back, so that the comma starts the key
EqMatch(s) ==
    LET p == SkipWs(s, 1)
    IN  IF p <= Len(s) /\ s[p] = "," /\ MatchKeyAt(s, SkipWs(s, p + 1)).ok
        THEN MatchKeyAt(s, SkipWs(s, p + 1))
        ELSE MatchKeyAt(s, p)

\* the key as returned (line 80 and 82)
ReturnedKey(key) == key

\* parse_key_val_pair(line): ok = FALSE stands for the ValueError
parse_key_val_pair(line) ==
    LET bang       == Find(line, "!")
        value_part == IF bang = 0 THEN line ELSE Slice(line, 1, bang - 1)
        comment    == IF bang = 0 THEN <<>>
                      ELSE <<" ", "!", " ">> \o Strip(From(line, bang + 1))
        eq_match   == EqMatch(value_part)
    IN  IF eq_match.ok
        THEN [ok      |-> TRUE,
              key     |-> ReturnedKey(eq_match.key),
              value   |-> Strip(RStripSet(eq_match.rest, {",", " ", "\t"})),
              comment |-> comment]
        ELSE [ok |-> FALSE, key |-> <<>>, value |-> <<>>, comment |-> <<>>]

(***************************************************************************)
(* find_longest_key                                                        *)
(***************************************************************************)
\* whether a line of the document takes part in the search for the longest key
CountsForLongestKey(line) == parse_key_val_pair(line).ok

RECURSIVE LongestKeyFrom(_, _)
LongestKeyFrom(ls, longest_key) ==
    IF ls = <<>> THEN longest_key
    ELSE LongestKeyFrom(Tail(ls),
             IF CountsForLongestKey(ls[1])
                /\ Len(parse_key_val_pair(ls[1]).key) > longest_key
             THEN Len(parse_key_val_pair(ls[1]).key)
             ELSE longest_key)

find_longest_key(content) == LongestKeyFrom(SplitLines(content), -1)

(***************************************************************************)
(* format_line                                                             *)
(***************************************************************************)
TRUE_REPR == << <<".", "t", ".">>, <<".", "T", "R", "U", "E", ".">> >>
FALSE_REPR == << <<".", "f", ".">>, <<".", "F", "A", "L", "S", "E", ".">> >>
DotTrue == <<".", "t", "r", "u", "e", ".">>
DotFalse == <<".", "f", "a", "l", "s", "e", ".">>

\* ", ".join([item.strip() for item in value.split(",")])
NormalizeList(value) ==
    IF Contains(value, ",")
    THEN Join([k \in DOMAIN Split(value, ",") |-> Strip(Split(value, ",")[k])],
              <<",", " ">>)
    ELSE value

\* the two loops over TRUE_REPR and FALSE_REPR
NormalizeBooleans(value) ==
    Replace(Replace(Replace(Replace(value, TRUE_REPR[1], DotTrue),
                            TRUE_REPR[2], DotTrue),
                    FALSE_REPR[1], DotFalse),
            FALSE_REPR[2], DotFalse)

\* value.replace('"', "'")
NormalizeQuotes(value) == Replace(value, <<"\"">>, <<"'">>)

\* a padding that forgets the blank of " = "
EqPaddingOffByOne(align_eq_to, key) == Max(align_eq_to - Len(key), 1)

\* the number of spaces between the key and " = "
EqPadding(align_eq_to, key) == Max(align_eq_to - Len(key) - 1, 1)

\* the comment as emitted
OutComment(comment, keep_comments) == IF keep_comments THEN comment ELSE <<>>

\* a key emitted lowercased, as a block header is
OutKeyLowered(key) == LowerStr(key)

\* the key as emitted
OutKey(key) == key

\* format_line, on a line that parses
format_line(line, align_eq_to, block_indent, trailing_comma, keep_comments) ==
    LET kvc   == parse_key_val_pair(line)
        value == NormalizeQuotes(NormalizeBooleans(NormalizeList(kvc.value)))
    IN  Spaces(block_indent) \o OutKey(kvc.key) \o Spaces(EqPadding(align_eq_to, kvc.key))
          \o <<" ", "=", " ">> \o value
          \o (IF trailing_comma THEN <<",">> ELSE <<>>)
          \o OutComment(kvc.comment, keep_comments)

(***************************************************************************)
(* The inputs: documents made of a few sample lines, one of every kind of  *)
(* line format_nml tells apart, and the command lines.                     *)
(***************************************************************************)
\* a block header
OpenLine == <<"&", "N">>
\* a block header holding a '=' and a comment
OpenEqLine == <<"&", "n", "a", "m", "=", "1", " ", "!", "c">>
CloseLine == <<"/">>
EmptyLine == <<>>
SpaceLine == <<" ">>
CommentLine == <<" ", "!", "c">>
\* K=.t.t. !x
BoolLine == <<"K", "=", ".", "t", ".", "t", ".", " ", "!", "x">>
\* bb = .TRUE.,.f.
ListLine == <<"b", "b", " ", "=", " ", ".", "T", "R", "U", "E", ".", ",", ".", "f", ".">>
\* a line that is no assignment and of no other kind
WordLine == <<"x">>

SampleLines == {OpenLine, OpenEqLine, CloseLine, EmptyLine, SpaceLine, CommentLine,
                BoolLine, ListLine, WordLine}

Documents == UNION {[1..n -> SampleLines] : n \in 0..MaxLines}

\* the content of the output file before the program runs
OldOutput == <<"o">>

\* pathlib.Path.resolve(), on the paths the command lines use
Resolve(path) == IF path = "./nml" THEN "nml" ELSE path

Files == {"nml", "out"}
EqOffsets == {0, 5}
BlockIndents == {0, 2}

\* in place, the layout options at their defaults, over the comment and
\* blank-line options
ArgsKeep ==
    [namelist : {"nml"}, output : {None}, eq_offset : {5},
     block_indentation : {2}, trailing_comma : {TRUE},
     keep_comments : BOOLEAN, keep_whitelines : BOOLEAN]

\* in place, comments and blank lines kept, over the layout options
ArgsLayout ==
    [namelist : {"nml"}, output : {None}, eq_offset : EqOffsets,
     block_indentation : BlockIndents, trailing_comma : BOOLEAN,
     keep_comments : {TRUE}, keep_whitelines : {TRUE}]

\* the command lines that format in place
ArgsInPlace == ArgsKeep \cup ArgsLayout

\* the command lines over --output, the formatting options at their defaults
ArgsOutput ==
    [namelist : {"nml"}, output : {None, "./nml", "out"}, eq_offset : {5},
     block_indentation : {2}, trailing_comma : {TRUE},
     keep_comments : {TRUE}, keep_whitelines : {TRUE}]

(***************************************************************************)
(* The state: the files, the command line, the locals of format_nml and of *)
(* the main program, and the position in the program.                      *)
(***************************************************************************)
VARIABLES fs, args, runs, pc, nml_content, align_eq_to, lines, i, in_block,
          mod_lines, formatted_lines

vars == <<fs, args, runs, pc, nml_content, align_eq_to, lines, i, in_block,
          mod_lines, formatted_lines>>

locals == <<nml_content, align_eq_to, lines, i, in_block, mod_lines, formatted_lines>>

InitWith(argset) ==
    /\ \E d \in Documents : fs = [f \in Files |-> IF f = "nml" THEN Join(d, <<NL>>)
                                                  ELSE OldOutput]
    /\ args \in argset
    /\ runs = 1
    /\ pc = "start"
    /\ nml_content = <<>>
    /\ align_eq_to = 0
    /\ lines = <<>>
    /\ i = 1
    /\ in_block = FALSE
    /\ mod_lines = <<>>
    /\ formatted_lines = <<>>

Init == InitWith(ArgsInPlace)
InitCli == InitWith(ArgsOutput)

(***************************************************************************)
(* format_nml                                                              *)
(***************************************************************************)
\* lines 186-194: read the file, find the longest key, enter the loop
FormatNml ==
    /\ pc = "start"
    /\ nml_content' = fs[Resolve(args.namelist)]
    /\ align_eq_to' = find_longest_key(nml_content') + args.eq_offset
    /\ lines' = SplitLines(nml_content')
    /\ i' = 1
    /\ in_block' = FALSE
    /\ mod_lines' = <<>>
    /\ pc' = "loop"
    /\ UNCHANGED <<fs, args, runs, formatted_lines>>

\* lines 197-198: the line of this iteration
CurLine == RStrip(lines[i])

IsBlockOpen(line) == StartsWith(Strip(line), <<"&">>)
IsBlockClose(line) == Strip(line) = <<"/">>
IsFullComment(line) == StartsWith(Strip(line), <<"!">>)

\* the branch of the loop body a line takes
Kind(line) ==
    IF IsBlockOpen(line) THEN "open"
    ELSE IF IsBlockClose(line) THEN "close"
    ELSE IF line = <<>> THEN "blank"
    ELSE IF IsFullComment(line) THEN "comment"
    ELSE "assign"

InLoop(kind) == pc = "loop" /\ i <= Len(lines) /\ Kind(CurLine) = kind

\* what a block header appends
OpenEmit(line) == <<LowerStr(Strip(line))>>

\* a block end that appends no separator line
CloseEmitNoSeparator(line) == <<Strip(line)>>

\* what a block end appends
CloseEmit(line) == <<Strip(line), <<>>>>

\* a blank line kept when either condition holds
KeepsBlankEither(keep_whitelines, inb) == keep_whitelines \/ inb

\* whether a blank line is appended
KeepsBlank(keep_whitelines, inb) == keep_whitelines /\ inb

\* what a full-line comment appends
CommentEmit(line, keep_comments, inb, block_indent) ==
    IF keep_comments
    THEN <<(IF ~inb THEN <<>> ELSE Spaces(block_indent))
             \o <<"!", " ">> \o Strip(Tail(Strip(line)))>>
    ELSE <<>>

\* what any other line appends, when it parses
AssignEmit(line, align, a) ==
    <<format_line(line, align, a.block_indentation, a.trailing_comma, a.keep_comments)>>

BlockOpen ==
    /\ InLoop("open")
    /\ in_block' = TRUE
    /\ mod_lines' = mod_lines \o OpenEmit(CurLine)
    /\ i' = i + 1
    /\ UNCHANGED <<fs, args, runs, pc, nml_content, align_eq_to, lines, formatted_lines>>

BlockClose ==
    /\ InLoop("close")
    /\ in_block' = FALSE
    /\ mod_lines' = mod_lines \o CloseEmit(CurLine)
    /\ i' = i + 1
    /\ UNCHANGED <<fs, args, runs, pc, nml_content, align_eq_to, lines, formatted_lines>>

BlankLine ==
    /\ InLoop("blank")
    /\ mod_lines' = IF KeepsBlank(args.keep_whitelines, in_block)
                    THEN Append(mod_lines, CurLine)
                    ELSE mod_lines
    /\ i' = i + 1
    /\ UNCHANGED <<fs, args, runs, pc, nml_content, align_eq_to, lines, in_block,
                   formatted_lines>>

FullLineComment ==
    /\ InLoop("comment")
    /\ mod_lines' = mod_lines
                      \o CommentEmit(CurLine, args.keep_comments, in_block,
                                     args.block_indentation)
    /\ i' = i + 1
    /\ UNCHANGED <<fs, args, runs, pc, nml_content, align_eq_to, lines, in_block,
                   formatted_lines>>

AssignmentLine ==
    /\ InLoop("assign")
    /\ parse_key_val_pair(CurLine).ok
    /\ mod_lines' = mod_lines \o AssignEmit(CurLine, align_eq_to, args)
    /\ i' = i + 1
    /\ UNCHANGED <<fs, args, runs, pc, nml_content, align_eq_to, lines, in_block,
                   formatted_lines>>

\* the ValueError of parse_key_val_pair leaves format_line, format_nml and the program
ParseFailure ==
    /\ InLoop("assign")
    /\ ~parse_key_val_pair(CurLine).ok
    /\ pc' = "error"
    /\ UNCHANGED <<fs, args, runs, locals>>

\* line 236
Return ==
    /\ pc = "loop"
    /\ i > Len(lines)
    /\ formatted_lines' = Join(mod_lines, <<NL>>)
    /\ pc' = "check"
    /\ UNCHANGED <<fs, args, runs, nml_content, align_eq_to, lines, i, in_block, mod_lines>>

(***************************************************************************)
(* The main program, after format_nml has returned.                        *)
(***************************************************************************)
\* a safety check that compares the paths as they were typed
SamePathUnresolved(output, namelist) == output # None /\ output = namelist

\* line 310: the condition of the safety check
SamePath(output, namelist) == output # None /\ Resolve(output) = Resolve(namelist)

\* line 314
OutputPath(a) == IF a.output # None THEN a.output ELSE a.namelist

\* lines 310-311
SafetyCheck ==
    /\ pc = "check"
    /\ pc' = IF SamePath(args.output, args.namelist) THEN "error" ELSE "write"
    /\ UNCHANGED <<fs, args, runs, locals>>

\* line 317
WriteText ==
    /\ pc = "write"
    /\ fs' = [fs EXCEPT ![Resolve(OutputPath(args))] = formatted_lines]
    /\ pc' = "done"
    /\ UNCHANGED <<args, runs, locals>>

\* the same command line is run once more, on the files the last run left
RunAgain ==
    /\ pc = "done"
    /\ runs < MaxRuns
    /\ runs' = runs + 1
    /\ pc' = "start"
    /\ nml_content' = <<>>
    /\ align_eq_to' = 0
    /\ lines' = <<>>
    /\ i' = 1
    /\ in_block' = FALSE
    /\ mod_lines' = <<>>
    /\ formatted_lines' = <<>>
    /\ UNCHANGED <<fs, args>>

Next ==
    \/ FormatNml
    \/ BlockOpen
    \/ BlockClose
    \/ BlankLine
    \/ FullLineComment
    \/ AssignmentLine
    \/ ParseFailure
    \/ Return
    \/ SafetyCheck
    \/ WriteText
    \/ RunAgain

Spec == Init /\ [][Next]_vars
SpecCli == InitCli /\ [][Next]_vars

(***************************************************************************)
(* What the properties read off a state.                                   *)
(***************************************************************************)
\* the input line the loop handled last, as the loop saw it
PrevLine == RStrip(lines[i - 1])

\* the loop has just appended the output of an assignment line
AssignmentEmitted ==
    pc = "loop" /\ i > 1 /\ Kind(PrevLine) = "assign" /\ Len(mod_lines) >= 1

\* the line appended last
LastOut == mod_lines[Len(mod_lines)]

\* the position of the first '=' of a line, counted from 0
EqColumn(s) == Find(s, "=") - 1

\* the first blank-separated word of a line
FirstWord(s) ==
    LET t == LStripSet(s, {" "})
    IN  IF Contains(t, " ") THEN Slice(t, 1, Find(t, " ") - 1) ELSE t

\* the value an output line shows: the text after "= ", up to an inline comment
ShownValue(s) ==
    Slice(s, Find(s, "=") + 2, IF Contains(s, "!") THEN Find(s, "!") - 1 ELSE Len(s))

\* whether the text old occurs in s
HasSub(s, old) == \E k \in 1..Len(s) : StartsWith(From(s, k), old)

\* the output line k lies in a block: the last delimiter above it opens one
InsideBlockAt(out, k) ==
    \E j \in 1..(k - 1) :
        /\ StartsWith(out[j], <<"&">>)
        /\ \A m \in (j + 1)..(k - 1) : out[m] # <<"/">>

\* every line of the document that the loop treats as an assignment parses
AllAssignmentsParse ==
    \A k \in DOMAIN lines :
        Kind(RStrip(lines[k])) = "assign" => parse_key_val_pair(RStrip(lines[k])).ok

\* the longest key among the lines the loop treats as assignments, -1 if none parses
LongestAssignmentKey ==
    LET lens == {Len(parse_key_val_pair(RStrip(lines[k])).key) :
                    k \in {j \in DOMAIN lines :
                              /\ Kind(RStrip(lines[j])) = "assign"
                              /\ parse_key_val_pair(RStrip(lines[j])).ok}}
    IN  IF lens = {} THEN -1 ELSE CHOOSE n \in lens : \A m \in lens : m <= n

(***************************************************************************)
(* C1                                                                      *)
(***************************************************************************)
\* C1: idempotence. When the program has formatted a file in place and is run
\* again with the same options, format_nml succeeds again and returns exactly
\* the text it read.
C1_Idempotent ==
    (args.output = None /\ runs >= 2) =>
        /\ pc # "error"
        /\ pc \in {"check", "write", "done"} => formatted_lines = nml_content

C3_NoBangWithoutComments ==
    (pc \in {"check", "write", "done"} /\ ~args.keep_comments) =>
        ~Contains(formatted_lines, "!")

(***************************************************************************)
(* C4                                                                      *)
(***************************************************************************)
\* C4: a line that is empty once its trailing whitespace is removed appends
\* nothing while the block state is outside, whatever the options; while it is
\* inside it appends exactly one empty line if keep_whitelines is enabled and
\* nothing if it is disabled.
C4_BlankLinePolicy ==
    [][(pc = "loop" /\ i <= Len(lines) /\ RStrip(lines[i]) = <<>>) =>
          /\ ~in_block => mod_lines' = mod_lines
          /\ (in_block /\ args.keep_whitelines) => mod_lines' = Append(mod_lines, <<>>)
          /\ (in_block /\ ~args.keep_whitelines) => mod_lines' = mod_lines]_vars

\* a whitespace-only line inside a block has just been kept as an empty line
C4_Witness ==
    /\ pc = "loop" /\ i > 1 /\ lines[i - 1] = SpaceLine
    /\ in_block /\ args.keep_whitelines
    /\ Len(mod_lines) >= 2 /\ LastOut = <<>>

(***************************************************************************)
(* C5                                                                      *)
(***************************************************************************)
\* C5: in the output lines every "/" is followed by exactly one empty line (and
\* then by a non-empty line or by the end of the output), and every other empty
\* line lies inside a block.
C5_BlockSeparator ==
    /\ \A k \in DOMAIN mod_lines :
         mod_lines[k] = <<"/">> =>
             /\ k + 1 <= Len(mod_lines)
             /\ mod_lines[k + 1] = <<>>
             /\ k + 2 <= Len(mod_lines) => mod_lines[k + 2] # <<>>
    /\ \A k \in DOMAIN mod_lines :
         mod_lines[k] = <<>> =>
             \/ k > 1 /\ mod_lines[k - 1] = <<"/">>
             \/ InsideBlockAt(mod_lines, k)

\* a block end, then a blank line that was dropped, then a line that was emitted
C5_Witness ==
    /\ pc = "loop" /\ i = 4 /\ Len(mod_lines) = 3
    /\ Kind(RStrip(lines[1])) = "close" /\ Kind(RStrip(lines[2])) = "blank"
    /\ mod_lines[1] = <<"/">> /\ mod_lines[2] = <<>> /\ mod_lines[3] # <<>>

(***************************************************************************)
(* C6                                                                      *)
(***************************************************************************)
\* C6: all or nothing. The files change in one step only, the write of the
\* whole formatted document to the output path, and that step is never reached
\* when an assignment line fails to parse or when --output resolves to the path
\* of the input: the run then ends in the error state with every file as it was.
C6_AllOrNothing ==
    [][/\ fs' # fs =>
            /\ pc = "write" /\ pc' = "done"
            /\ i > Len(lines)
            /\ fs' = [fs EXCEPT ![Resolve(OutputPath(args))] = Join(mod_lines, <<NL>>)]
       /\ pc' \in {"write", "done"} =>
            /\ AllAssignmentsParse
            /\ ~(args.output # None /\ Resolve(args.output) = Resolve(args.namelist))
       /\ pc' = "error" =>
            /\ fs' = fs
            /\ runs = 1 => fs = [f \in Files |-> IF f = "nml" THEN nml_content
                                                 ELSE OldOutput]]_vars

\* the whole document was formatted, --output named the input by another
\* spelling, and the run ended in the error state with the input as it was read
C6_Witness ==
    /\ pc = "error" /\ args.output = "./nml"
    /\ Len(lines) > 0 /\ i > Len(lines)
    /\ fs["nml"] = nml_content /\ fs["out"] = OldOutput

(***************************************************************************)
(* C7                                                                      *)
(***************************************************************************)
\* C7: the value emitted for an assignment line holds no occurrence of .t.,
\* .TRUE., .f. or .FALSE.: all of them were rewritten.
C7_NoBooleanLeft ==
    AssignmentEmitted =>
        \A b \in {TRUE_REPR[1], TRUE_REPR[2], FALSE_REPR[1], FALSE_REPR[2]} :
            ~HasSub(ShownValue(LastOut), b)

(***************************************************************************)
(* C8                                                                      *)
(***************************************************************************)
\* C8: on every line on which parse_key_val_pair succeeds, the key it returns
\* is the lowercased form of the key matched in the line.
C8_KeyLowercase ==
    (pc = "loop" /\ i > 1 /\ parse_key_val_pair(PrevLine).ok) =>
        parse_key_val_pair(PrevLine).key = LowerStr(parse_key_val_pair(PrevLine).key)

(***************************************************************************)
(* C9                                                                      *)
(***************************************************************************)
\* C9: find_longest_key returns the longest key length over exactly the lines
\* that format_nml treats as assignment lines (-1 if none of them parses):
\* block headers, block ends, blank lines and full-line comments never count.
C9_LongestKeyOverAssignments ==
    pc \in {"loop", "check", "write", "done", "error"} =>
        align_eq_to - args.eq_offset = LongestAssignmentKey

(***************************************************************************)
(* C10                                                                     *)
(***************************************************************************)
\* C10: every step of the loop that does not fail appends to the output and
\* never changes what is there; it appends one line for an assignment line, one
\* for a block header, the two lines "/" and "" for a block end and at most one
\* for a blank or comment line, and the line of an assignment starts with the
\* key parsed from the input line.
C10_NothingLost ==
    [][(pc = "loop" /\ i <= Len(lines) /\ pc' = "loop") =>
          LET kind  == Kind(CurLine)
              n     == Len(mod_lines)
              added == Len(mod_lines') - n
          IN  /\ i' = i + 1
              /\ added >= 0
              /\ SubSeq(mod_lines', 1, n) = mod_lines
              /\ kind = "assign" =>
                   /\ added = 1
                   /\ FirstWord(mod_lines'[n + 1]) = parse_key_val_pair(CurLine).key
              /\ kind = "open" => added = 1
              /\ kind = "close" =>
                   added = 2 /\ mod_lines'[n + 1] = <<"/">> /\ mod_lines'[n + 2] = <<>>
              /\ kind \in {"blank", "comment"} => added <= 1]_vars

\* two assignment lines were emitted in the order of the input, the first with
\* its upper-case key
C10_Witness ==
    /\ pc = "loop" /\ i = 3 /\ Len(mod_lines) = 2
    /\ lines[1] = BoolLine /\ lines[2] = ListLine
    /\ FirstWord(mod_lines[1]) = <<"K">> /\ FirstWord(mod_lines[2]) = <<"b", "b">>

=============================================================================
